---- MODULE Spec2Model ----
\* Model of the SEO assessment ETL (sqlite_version): the CSV loader
\* (Utilities/ingest_csv_to_sqlite.py), its ingestion ledger, and the
\* pipeline orchestrator (seo_pipeline.py) that drives the loader and the
\* SQL script executor (Utilities/execute_sqlite_sql.py).
EXTENDS Integers, Sequences, FiniteSets, TLC

\* ------------------------------------------------------------------ bounds
\* Most data rows a CSV file holds before it ends or turns malformed.
MaxRows == 2
\* Most top-level invocations (CLI loader calls, or pipeline runs).
MaxRuns == 2
\* Most ticks of the wall clock over a behaviour.
MaxClock == 1

\* ---------------------------------------------------------------- fixtures
\* File names a directory listing can hold (both match "<prefix>*.csv").
Names == {"A.csv", "B.csv"}
\* directory_path values the CLI loader is called with.
CliDirs == {"data/gsc"}
\* table_name values the CLI loader is called with.
CliTables == {"stg_gsc_data"}
\* Two spellings of one directory (relative, and with a leading "./"), and
\* two target tables, for calls that reach the same files in different ways.
DirSpellings == {"data/gsc", "./data/gsc"}
TargetTables == {"stg_gsc_data", "stg_analytics_data"}
\* The three staging tables the pipeline loads (seo_pipeline.py 195/212/227).
Tables == {"stg_gsc_data", "stg_analytics_data", "stg_rank_data"}

\* The header row of every CSV file: its column names.
Header == <<"c1", "c2">>
\* data_date not given (None): falsy in "if not data_date".
NoDate == ""
\* --data-date values the CLI loader is called with.
CliDates == {NoDate, "2023-12-31"}

NoResult == [status |-> "none"]
NoCall == [directory_path |-> "", table_name |-> "", data_date |-> NoDate,
           run_date |-> NoDate, matching_files |-> <<>>,
           new_files |-> <<>>, i |-> 0, line |-> 0,
           success_count |-> 0, error_count |-> 0, results |-> <<>>,
           connects |-> 0, conn |-> "none"]

VARIABLES
    content,       \* [Names -> [good, bad]]: a file's valid leading data rows,
                   \* and whether a malformed row (raising in the loader) follows
    ledgerExists,  \* whether the store has the log_file_dtl table
    auditSchema,   \* whether the staging tables have the data_date, run_date columns
    clock,         \* the wall clock, in ticks
    ledger,        \* committed rows of log_file_dtl, in insertion order
    tables,        \* [Tables -> committed rows, in insertion order]
    pending,       \* rows inserted on the loader's connection, not yet committed
    ipc,           \* loader position: "idle", "file", "log", "returned"
    call,          \* the running loader call's arguments and locals
    iresult,       \* the dict the last loader call returned
    caller,        \* who called the loader: "cli" or "pipeline"
    atCall,        \* history: the ledger and the tables as the running call found them
    runs           \* top-level invocations started so far

\* Everything of the loader and the store but the run counter.
ingestFrame == <<content, ledgerExists, auditSchema, clock, ledger, tables, pending,
                 ipc, call, iresult, caller, atCall>>
ingestVars == <<ingestFrame, runs>>

\* ----------------------------------------------------------------- helpers
\* os.path.join(directory_path, name): the path string glob returns.
PathOf(directory_path, name) == <<directory_path, name>>
\* os.path.basename(file_path)
Basename(file_path) == file_path[2]

\* datetime.now().strftime('%Y-%m-%d') and datetime.now().isoformat() when
\* the clock shows t.  A tick is an instant at which both change (midnight).
Today(t) == "day-" \o ToString(t)
IsoNow(t) == "ts-" \o ToString(t)
\* "if not data_date: data_date = <current date>"
DefaultDate(data_date, t) == IF data_date = NoDate THEN Today(t) ELSE data_date

\* result.get(key, default) on a returned dict
Get(r, key, default) == IF key \in DOMAIN r THEN r[key] ELSE default

RECURSIVE SelectNew(_, _)
\* new_files: the matching files not in ingested_files, order kept.
SelectNew(matching_files, ingested_files) ==
    IF matching_files = <<>> THEN <<>>
    ELSE LET rest == SelectNew(Tail(matching_files), ingested_files)
         IN  IF Head(matching_files) \notin ingested_files
             THEN <<Head(matching_files)>> \o rest
             ELSE rest

\* Duplicate-free sequences over a set: what glob.glob can return.
RECURSIVE Listings(_)
Listings(S) ==
    {<<>>} \cup UNION {{<<x>> \o l : l \in Listings(S \ {x})} : x \in S}

\* Variant: only the newest ledger row is looked at.
get_already_ingested_files_LatestOnly(exists, led) ==
    IF exists /\ led # <<>> /\ led[Len(led)].status = "completed"
    THEN {led[Len(led)].file_name} ELSE {}

\* Variant: the query has no status filter.
get_already_ingested_files_AnyStatus(exists, led) ==
    IF exists THEN {led[k].file_name : k \in 1..Len(led)} ELSE {}

\* Variant: the query filters on a status the loader never writes.
get_already_ingested_files_WrongStatus(exists, led) ==
    IF exists
    THEN {led[k].file_name : k \in {j \in 1..Len(led) : led[j].status = "success"}}
    ELSE {}

\* get_already_ingested_files: file_name of the completed ledger rows; the
\* empty list when the query fails because log_file_dtl does not exist.
get_already_ingested_files(exists, led) ==
    IF exists
    THEN {led[k].file_name : k \in {j \in 1..Len(led) : led[j].status = "completed"}}
    ELSE {}

\* Variant: the file's latest row is replaced when it has one.
log_ingestion_ledger_Upsert(exists, led, file_path, status, data_date, t) ==
    LET entry == [file_name |-> file_path, status |-> status,
                  data_date |-> DefaultDate(data_date, t)]
        old   == {k \in 1..Len(led) : led[k].file_name = file_path}
    IN  IF ~exists THEN led
        ELSE IF old = {} THEN Append(led, entry)
        ELSE [led EXCEPT ![CHOOSE k \in old : \A j \in old : j <= k] = entry]

\* Variant: only successful loads are recorded.
log_ingestion_ledger_CompletedOnly(exists, led, file_path, status, data_date, t) ==
    IF exists /\ status = "completed"
    THEN Append(led, [file_name |-> file_path, status |-> status,
                      data_date |-> DefaultDate(data_date, t)])
    ELSE led

\* log_ingestion, ledger part: one new row, file_name = the path as given,
\* data_date as passed (the current date when none is passed).  Without the
\* table the INSERT raises and the exception is swallowed.
log_ingestion_ledger(exists, led, file_path, status, data_date, t) ==
    IF exists
    THEN Append(led, [file_name |-> file_path, status |-> status,
                      data_date |-> DefaultDate(data_date, t)])
    ELSE led

\* conn.commit(): the connection's uncommitted inserts reach the table.
Committed(tbls, table_name, pend) == [tbls EXCEPT ![table_name] = @ \o pend]

\* log_ingestion, transaction part: its conn.commit() runs only when the
\* INSERT into log_file_dtl succeeded, and commits whatever the shared
\* connection has pending.
log_ingestion_tables(exists, tbls, table_name, pend) ==
    IF exists THEN Committed(tbls, table_name, pend) ELSE tbls

log_ingestion_pending(exists, pend) == IF exists THEN <<>> ELSE pend

\* Variant: the status compares the two counters.
AggregateResult_Majority(success_count, error_count, matching_files, new_files, results) ==
    [status    |-> IF error_count > success_count THEN "partial" ELSE "success",
     succeeded |-> success_count,
     failed    |-> error_count,
     skipped   |-> Len(matching_files) - Len(new_files),
     results   |-> results]

\* Variant: every matched file is counted as skipped.
AggregateResult_SkippedAll(success_count, error_count, matching_files, new_files, results) ==
    [status    |-> IF error_count > 0 THEN "partial" ELSE "success",
     succeeded |-> success_count,
     failed    |-> IF error_count > 0 THEN error_count ELSE 0,
     skipped   |-> Len(matching_files),
     results   |-> results]

\* The aggregate result, lines 276-291.
AggregateResult(success_count, error_count, matching_files, new_files, results) ==
    [status    |-> IF error_count > 0 THEN "partial" ELSE "success",
     succeeded |-> success_count,
     failed    |-> IF error_count > 0 THEN error_count ELSE 0,
     skipped   |-> Len(matching_files) - Len(new_files),
     results   |-> results]

\* ------------------------------------------------------------------ loader
\* Variant: the call is skipped as soon as one matched file is ingested.
NothingNew_SomeIngested(matching_files, new_files) ==
    Len(new_files) < Len(matching_files)

\* "if not new_files" (line 180).
NothingNew(matching_files, new_files) == new_files = <<>>

\* ingest_csv_to_sqlite up to the per-file loop (lines 147-193).  dir_exists
\* and matching_files are what the file system answers.
IngestCall(directory_path, table_name, data_date, dir_exists, matching_files) ==
    LET ingested_files == get_already_ingested_files(ledgerExists, ledger)
        new_files      == SelectNew(matching_files, ingested_files)
        early(r, connects, conn) ==
                          /\ iresult' = r
                          /\ ipc' = "returned"
                          /\ call' = [NoCall EXCEPT !.directory_path = directory_path,
                                                    !.table_name = table_name,
                                                    !.data_date = DefaultDate(data_date, clock),
                                                    !.matching_files = matching_files,
                                                    !.connects = connects,
                                                    !.conn = conn]
    IN  /\ pending' = <<>>
        /\ atCall' = [ledger |-> ledger, tables |-> tables]
        /\ IF ~dir_exists
           THEN early([status |-> "error", message |-> "Directory not found"], 0, "none")
           ELSE IF matching_files = <<>>
           THEN early([status |-> "warning", message |-> "No files matching pattern"],
                      0, "none")
           ELSE IF NothingNew(matching_files, new_files)
           THEN early([status |-> "skipped",
                       message |-> "All matching files already ingested",
                       matched_files |-> Len(matching_files)],
                      1, "closed")
           ELSE /\ iresult' = NoResult
                /\ ipc' = "file"
                /\ call' = [directory_path |-> directory_path,
                            table_name |-> table_name,
                            data_date |-> DefaultDate(data_date, clock),
                            run_date |-> NoDate,
                            matching_files |-> matching_files,
                            new_files |-> new_files, i |-> 1, line |-> 0,
                            success_count |-> 0, error_count |-> 0,
                            results |-> <<>>,
                            connects |-> 1, conn |-> "open"]
        /\ UNCHANGED <<content, ledgerExists, auditSchema, clock, ledger, tables>>

\* What the file system can answer for a directory: missing, or a listing.
FsAnswers(directory_path) ==
    {[dir_exists |-> FALSE, matching_files |-> <<>>]} \cup
    {[dir_exists |-> TRUE,
      matching_files |-> [k \in 1..Len(l) |-> PathOf(directory_path, l[k])]] :
        l \in Listings(Names)}

\* main() of the loader script calling ingest_csv_to_sqlite (line 316).
CliStart ==
    /\ ipc \in {"idle", "returned"}
    /\ runs < MaxRuns
    /\ \E d \in CliDirs, t \in CliTables, dd \in CliDates :
         \E fs \in FsAnswers(d) :
            IngestCall(d, t, dd, fs.dir_exists, fs.matching_files)
    /\ caller' = "cli"
    /\ runs' = runs + 1

\* The loader script called with any spelling of the directory and either
\* target table (line 316).
CliStartAnyPath ==
    /\ ipc \in {"idle", "returned"}
    /\ runs < MaxRuns
    /\ \E d \in DirSpellings, t \in TargetTables :
         \E fs \in FsAnswers(d) :
            IngestCall(d, t, NoDate, fs.dir_exists, fs.matching_files)
    /\ caller' = "cli"
    /\ runs' = runs + 1

CurFile == call.new_files[call.i]
CurContent == content[Basename(CurFile)]
InFile == ipc = "file" /\ call.i <= Len(call.new_files)

\* The values of a data row of a CSV file: one per header column.
CsvRow(name, line) == [c \in 1..Len(Header) |-> "v"]

\* Variant: the timestamp is taken inside the row loop.
InsertedValues_StampPerRow(row, has_audit_columns, data_date, run_date, t) ==
    IF has_audit_columns THEN row \o <<data_date, IsoNow(t)>> ELSE row

\* The values bound to the INSERT (lines 221-234): with audit columns
\* full_row = list(row) + [data_date, run_date], else the row as read.
InsertedValues(row, has_audit_columns, data_date, run_date, t) ==
    IF has_audit_columns THEN row \o <<data_date, run_date>> ELSE row

\* One pass of the row loop (lines 226-234): cursor.execute(INSERT) of the
\* next valid row; the row joins the connection's open transaction.  run_date
\* is read from the clock once per file, before its first row (line 223).
InsertRow ==
    /\ InFile
    /\ call.line < CurContent.good
    /\ LET run_date == IF call.line = 0 THEN IsoNow(clock) ELSE call.run_date
       IN  /\ pending' = Append(pending,
                 [file |-> CurFile, line |-> call.line + 1,
                  values |-> InsertedValues(CsvRow(Basename(CurFile), call.line + 1),
                                            auditSchema, call.data_date, run_date, clock)])
           /\ call' = [call EXCEPT !.line = @ + 1, !.run_date = run_date]
    /\ UNCHANGED <<content, ledgerExists, auditSchema, clock, ledger, tables, ipc, iresult, caller, atCall, runs>>

\* Variant: the exception leaves the loop instead of going to the next file.
FileRaise_Abort ==
    /\ InFile
    /\ call.line = CurContent.good
    /\ CurContent.bad
    /\ ledger' = log_ingestion_ledger(ledgerExists, ledger, CurFile, "failed",
                                     call.data_date, clock)
    /\ tables' = log_ingestion_tables(ledgerExists, tables, call.table_name, pending)
    /\ pending' = log_ingestion_pending(ledgerExists, pending)
    /\ call' = [call EXCEPT !.error_count = @ + 1,
                            !.results = Append(@, [file |-> CurFile, status |-> "error"]),
                            !.i = Len(call.new_files) + 1, !.line = 0,
                            !.run_date = NoDate]
    /\ UNCHANGED <<content, ledgerExists, auditSchema, clock, ipc, iresult, caller, atCall, runs>>

\* The except branch of the per-file try (lines 250-265), entered when the
\* header or the next row raises: log_ingestion(failed), count, next file.
FileRaise ==
    /\ InFile
    /\ call.line = CurContent.good
    /\ CurContent.bad
    /\ ledger' = log_ingestion_ledger(ledgerExists, ledger, CurFile, "failed",
                                     call.data_date, clock)
    /\ tables' = log_ingestion_tables(ledgerExists, tables, call.table_name, pending)
    /\ pending' = log_ingestion_pending(ledgerExists, pending)
    /\ call' = [call EXCEPT !.error_count = @ + 1,
                            !.results = Append(@, [file |-> CurFile, status |-> "error"]),
                            !.i = @ + 1, !.line = 0, !.run_date = NoDate]
    /\ UNCHANGED <<content, ledgerExists, auditSchema, clock, ipc, iresult, caller, atCall, runs>>

\* Variant: the commit and the ledger write do not wait for the last row.
FileCommit_Early ==
    /\ InFile
    /\ call.line <= CurContent.good
    /\ ~CurContent.bad
    /\ tables' = Committed(tables, call.table_name, pending)
    /\ pending' = <<>>
    /\ ipc' = "log"
    /\ UNCHANGED <<content, ledgerExists, auditSchema, clock, ledger, call, iresult, caller, atCall, runs>>

\* conn.commit() after the last row of a file (line 237).
FileCommit ==
    /\ InFile
    /\ call.line = CurContent.good
    /\ ~CurContent.bad
    /\ tables' = Committed(tables, call.table_name, pending)
    /\ pending' = <<>>
    /\ ipc' = "log"
    /\ UNCHANGED <<content, ledgerExists, auditSchema, clock, ledger, call, iresult, caller, atCall, runs>>

\* Variant: a ledger write that fails lands in the per-file except branch.
LogCompleted_LedgerRequired ==
    /\ ipc = "log"
    /\ ledger' = log_ingestion_ledger(ledgerExists, ledger, CurFile, "completed",
                                     call.data_date, clock)
    /\ tables' = log_ingestion_tables(ledgerExists, tables, call.table_name, pending)
    /\ pending' = log_ingestion_pending(ledgerExists, pending)
    /\ call' = IF ledgerExists
               THEN [call EXCEPT !.success_count = @ + 1,
                                 !.results = Append(@, [file |-> CurFile, status |-> "success"]),
                                 !.i = @ + 1, !.line = 0, !.run_date = NoDate]
               ELSE [call EXCEPT !.error_count = @ + 1,
                                 !.results = Append(@, [file |-> CurFile, status |-> "error"]),
                                 !.i = @ + 1, !.line = 0, !.run_date = NoDate]
    /\ ipc' = "file"
    /\ UNCHANGED <<content, ledgerExists, auditSchema, clock, iresult, caller, atCall, runs>>

\* log_ingestion(completed) and the success bookkeeping (lines 240-246).
LogCompleted ==
    /\ ipc = "log"
    /\ ledger' = log_ingestion_ledger(ledgerExists, ledger, CurFile, "completed",
                                     call.data_date, clock)
    /\ tables' = log_ingestion_tables(ledgerExists, tables, call.table_name, pending)
    /\ pending' = log_ingestion_pending(ledgerExists, pending)
    /\ call' = [call EXCEPT !.success_count = @ + 1,
                            !.results = Append(@, [file |-> CurFile, status |-> "success"]),
                            !.i = @ + 1, !.line = 0, !.run_date = NoDate]
    /\ ipc' = "file"
    /\ UNCHANGED <<content, ledgerExists, auditSchema, clock, iresult, caller, atCall, runs>>

\* After the loop: conn.close() drops what is still uncommitted, and the
\* aggregate result is returned (lines 268-291).
IngestFinish ==
    /\ ipc = "file"
    /\ call.i > Len(call.new_files)
    /\ pending' = <<>>
    /\ iresult' = AggregateResult(call.success_count, call.error_count,
                                  call.matching_files, call.new_files, call.results)
    /\ call' = [call EXCEPT !.conn = "closed"]
    /\ ipc' = "returned"
    /\ UNCHANGED <<content, ledgerExists, auditSchema, clock, ledger, tables, caller, atCall, runs>>

\* Variant: a partial load exits 0.
IngestExitCode_PartialOk(result) ==
    IF result.status \in {"success", "skipped", "partial"} THEN 0 ELSE 1

\* The loader script's exit code (lines 318-329).
IngestExitCode(result) ==
    IF result.status = "success" THEN 0
    ELSE IF result.status = "partial" THEN 1
    ELSE IF result.status = "skipped" THEN 0
    ELSE 1

\* ------------------------------------------------- processes and exit codes
VARIABLES
    proc,      \* the entry point whose process runs: "none", "loader", "executor", "pipeline"
    exitCode   \* <<[entry, code]>> of the last process that exited; <<>> while one
               \* runs or before any

processVars == <<proc, exitCode>>

\* A process of an entry point starts.
Spawn(entry) ==
    /\ proc = "none"
    /\ proc' = entry
    /\ exitCode' = <<>>

\* sys.exit(code) in the running process.
Exit(code) ==
    /\ proc' = "none"
    /\ exitCode' = <<[entry |-> proc, code |-> code]>>

\* ---------------------------------------------------------------- executor
\* What execute_sql_file can meet: nothing, a script path that does not
\* exist, a script that cannot be read, a store that cannot be opened, an
\* SQL error while the script runs.
ExecFaults == {"none", "not_found", "unreadable", "connect", "sql"}
\* The exception a fault raises inside the try block ("": none).
ExceptionOf(fault) ==
    IF fault = "unreadable" THEN "OSError"
    ELSE IF fault \in {"connect", "sql"} THEN "sqlite3.Error"
    ELSE ""

\* Variant: the except clause names sqlite3.Error.
Catches_SqliteOnly(exc) == exc = "sqlite3.Error"

\* "except Exception as e" (line 106): what the clause catches.
Catches(exc) == TRUE

\* execute_sql_file (execute_sqlite_sql.py 54-114): the dict returned for a
\* script path, or status "raise" when an exception leaves the function.
execute_sql_file(sql_file_path, fault, data_date, t) ==
    IF fault = "not_found"
    THEN [status |-> "error", message |-> "SQL file not found"]
    ELSE IF fault = "none"
    THEN [status |-> "success", file_name |-> Basename(sql_file_path),
          data_date |-> DefaultDate(data_date, t)]
    ELSE IF Catches(ExceptionOf(fault))
    THEN [status |-> "error", message |-> ExceptionOf(fault),
          file_name |-> Basename(sql_file_path)]
    ELSE [status |-> "raise", exception |-> ExceptionOf(fault)]

\* The statements of a script, in the order executescript runs them.  The
\* scripts carry no transaction control of their own, so every statement
\* that finishes is committed on its own.
StatementsOf(sql_file_path) == <<"statement_1", "statement_2">>

\* Variant: the except branch rolls the script's statements back.
execute_sql_file_committed_Rollback(sql_file_path, fault, fail_at) ==
    IF fault = "none" THEN StatementsOf(sql_file_path) ELSE <<>>

\* The statements of the script execute_sql_file leaves committed in the
\* store (lines 91-94, 106-114): executescript stops at the statement that
\* fails, and the except branch issues no rollback.
execute_sql_file_committed(sql_file_path, fault, fail_at) ==
    IF fault = "none" THEN StatementsOf(sql_file_path)
    ELSE IF fault = "sql" THEN SubSeq(StatementsOf(sql_file_path), 1, fail_at - 1)
    ELSE <<>>

\* A connection that a function leaves without conn.close(): whether the
\* handle is closed when the function has returned depends on when the
\* runtime finalises the connection object nothing refers to any more.
Unclosed == {"open", "closed"}

\* The connection of execute_sql_file when it has returned: none was opened
\* before line 79; conn.close() (line 97) is on the success path only.
execute_sql_file_conn(fault) ==
    IF fault \in {"not_found", "unreadable", "connect"} THEN {"none"}
    ELSE IF fault = "none" THEN {"closed"}
    ELSE Unclosed

VARIABLES
    epc,         \* executor script position: "idle", "returned"
    ecall,       \* the arguments of the last execute_sql_file call of the script's main
    eresult,     \* what that call returned
    ecommitted,  \* the statements of the script that call left committed in the store
    econn        \* the connection of that call: "none", "open", "closed"

executorVars == <<epc, ecall, eresult, ecommitted, econn>>

\* sql_file and --data-date values the executor script is called with.
ExecPaths == {PathOf("sql/transform", "transform_gsc.sql"), PathOf("sql/fact", "fact_seo.sql")}
ExecDates == {NoDate, "2023-12-31"}
NoExec == [sql_file_path |-> PathOf("", ""), fault |-> "none", fail_at |-> 0,
           data_date |-> NoDate, now |-> 0]
\* The statement a script fails at under a fault (0: no statement is reached
\* or none fails).
FailPositions(sql_file_path, fault) ==
    IF fault = "sql" THEN 1..Len(StatementsOf(sql_file_path)) ELSE {0}

\* A new process holds nothing of an earlier executor process.
ResetExecutor ==
    /\ epc' = "idle"
    /\ ecall' = NoExec
    /\ eresult' = NoResult
    /\ ecommitted' = <<>>
    /\ econn' = "none"

\* A new process holds nothing of an earlier loader call; the store stays.
ResetLoader ==
    /\ pending' = <<>>
    /\ ipc' = "idle"
    /\ call' = NoCall
    /\ iresult' = NoResult
    /\ caller' = "cli"
    /\ atCall' = [ledger |-> ledger, tables |-> tables]
    /\ UNCHANGED <<content, ledgerExists, auditSchema, clock, ledger, tables>>

\* main() of the executor script calling execute_sql_file (line 128).
ExecStart ==
    /\ Spawn("executor")
    /\ runs < MaxRuns
    /\ runs' = runs + 1
    /\ \E path \in ExecPaths, fault \in ExecFaults, dd \in ExecDates :
         \E fail_at \in FailPositions(path, fault) :
           /\ ecall' = [sql_file_path |-> path, fault |-> fault, fail_at |-> fail_at,
                        data_date |-> dd, now |-> clock]
           /\ eresult' = execute_sql_file(path, fault, dd, clock)
           /\ ecommitted' = execute_sql_file_committed(path, fault, fail_at)
           /\ econn' \in execute_sql_file_conn(fault)
    /\ epc' = "returned"

\* The executor script's exit code (lines 130-135).
ExecExitCode(result) == IF result.status = "success" THEN 0 ELSE 1

\* The executor script exits.
ExecExit ==
    /\ proc = "executor"
    /\ epc = "returned"
    /\ Exit(ExecExitCode(eresult))
    /\ UNCHANGED <<executorVars, runs>>

\* --------------------------------------------------------------- pipeline
VARIABLES
    ppc,            \* run_pipeline position: "idle", a stage name, "returned"
    cfg,            \* the configuration the run was given
    started,        \* stages started in this run, in order
    ingestResults,  \* gsc_result, analytics_result, rank_result
    executed,       \* [script, status] of every execute_sql_file call of the run
    script_i,       \* index of the next script of the running script stage
    success_count,  \* success_count of the running script stage
    exportOutcome,  \* what export_fact_table did: "none", "disabled", "ok", "fail_*"
    exportOpened,   \* whether export_fact_table opened the store
    exportConn,     \* the connection of export_fact_table: "none", "open", "closed"
    exportFiles,    \* export files created in this run
    presult,        \* run_pipeline's return value: "none", "success", "failure"
    batch,          \* the run's data_date argument, the configuration's
                    \* processing.data_date, start_time and the resolved data_date
    scriptDates,    \* history: data_date values passed to execute_sql_file in this run
    pexc            \* history: the exception raised inside this run's try block ("": none)

pipelineVars == <<ppc, cfg, started, ingestResults, executed, script_i,
                  success_count, exportOutcome, exportOpened, exportConn, exportFiles, presult,
                  batch, scriptDates, pexc>>

\* Variant: the join step is written before the transform step.
StageOrder_JoinFirst == <<"INGEST_GSC", "INGEST_ANALYTICS", "INGEST_RANK",
                          "JOIN", "TRANSFORM", "FACT", "EXPORT">>

\* The order of the steps in run_pipeline (lines 188-268).
StageOrder == <<"INGEST_GSC", "INGEST_ANALYTICS", "INGEST_RANK",
                "TRANSFORM", "JOIN", "FACT", "EXPORT">>
StageIndex(stage) == CHOOSE k \in 1..Len(StageOrder) : StageOrder[k] = stage
\* The stage run_pipeline goes to after a stage passed its check.
NextStage(stage) == StageOrder[StageIndex(stage) + 1]

\* Directory and table of each ingestion stage (lines 193-195, 210-212, 225-227).
StageDir == [INGEST_GSC |-> "data/gsc", INGEST_ANALYTICS |-> "data/analytics",
             INGEST_RANK |-> "data/rank"]
StageTable == [INGEST_GSC |-> "stg_gsc_data", INGEST_ANALYTICS |-> "stg_analytics_data",
               INGEST_RANK |-> "stg_rank_data"]

\* Script lists of run_transformations, run_joins and create_fact_table.
StageScripts == [TRANSFORM |-> <<"transform_gsc", "transform_analytics", "transform_rank">>,
                 JOIN      |-> <<"join_gsc_analytics", "join_gsc_rank">>,
                 FACT      |-> <<"fact_seo">>]
\* Configuration keys a script stage reads before its first script.
StageKey == [TRANSFORM |-> "sql.transform", JOIN |-> "sql.join", FACT |-> "sql.fact"]

\* Configurations: at most one key group absent; export_csv on or off/absent.
ConfigKeys == {"input", "database", "sql.transform", "sql.join", "sql.fact", "output"}
Configs == {c \in [missing : ConfigKeys \cup {"none"}, export_csv : BOOLEAN] :
              c.missing = "output" => ~c.export_csv}
NoConfig == [missing |-> "none", export_csv |-> FALSE]
\* --data-date values the pipeline is started with, and processing.data_date
\* values of the configuration (NoDate: not given, absent or empty).
PipelineDates == {NoDate, "2023-12-31"}
ConfigDates == {NoDate, "2023-11-30"}
NoBatch == [arg |-> NoDate, config |-> NoDate, start_time |-> 0, data_date |-> NoDate]

\* Variant: the configuration's date wins over the argument.
ResolveDate_ConfigFirst(arg, config_date, t) ==
    IF config_date # NoDate THEN config_date
    ELSE IF arg # NoDate THEN arg
    ELSE Today(t)

\* The run's data_date (lines 176-181): the argument, else the
\* configuration's processing.data_date, else the current date.
ResolveDate(arg, config_date, t) ==
    IF arg # NoDate THEN arg
    ELSE IF config_date # NoDate THEN config_date
    ELSE Today(t)

\* Variant: a partial outcome passes whatever its succeeded count.
IngestStageSuccess_AnyPartial(result) ==
    result.status \in {"success", "skipped", "partial"}

\* gsc_success / analytics_success / rank_success (lines 199-200, 214-215, 229-230).
IngestStageSuccess(result) ==
    \/ result.status \in {"success", "skipped"}
    \/ (result.status = "partial" /\ Get(result, "succeeded", 0) > 0)

\* Variant: one successful script is enough.
ScriptStageSuccess_Any(count, scripts) == count > 0

\* The return of run_transformations / run_joins (lines 91, 112).
ScriptStageSuccess(count, scripts) == count = Len(scripts)

\* Variant: the flag's default is True and the stored value is not read.
ExportEnabled_Always(c) == TRUE

\* config['output'].get('export_csv', False) (line 127).
ExportEnabled(c) == c.export_csv

\* Variant: the export outcome is left out of the return value.
PipelineReturn_FactOnly(fact_success, export_success) == fact_success

\* run_pipeline's final return value (line 275).
PipelineReturn(fact_success, export_success) == fact_success /\ export_success

Outcome(b) == IF b THEN "success" ELSE "failure"

\* return False from a fail-fast check.
ReturnFailure ==
    /\ ppc' = "returned"
    /\ presult' = "failure"

\* Variant: the except clause names sqlite3.Error.
PipelineCatches_SqliteOnly(exc) == exc = "sqlite3.Error"

\* "except Exception as e" of run_pipeline (line 277): what it catches.
PipelineCatches(exc) == TRUE

\* An exception raised inside run_pipeline's try block: the except clause
\* returns False (277-280); presult "raised" when the exception leaves
\* run_pipeline.
RaiseInPipeline(exc) ==
    /\ ppc' = "returned"
    /\ pexc' = exc
    /\ presult' = IF PipelineCatches(exc) THEN "failure" ELSE "raised"

\* The pipeline script's exit code (line 306).
PipelineExitCode(result) == IF result = "success" THEN 0 ELSE 1

\* Entering a stage: it is recorded as started.
EnterStage(stage) ==
    /\ ppc' = stage
    /\ started' = Append(started, stage)

\* run_pipeline up to the call of the GSC ingestion (lines 168-195), given
\* the configuration, the data_date argument and processing.data_date.
PipelineBegin(c, arg, config_date) ==
    /\ Spawn("pipeline")
    /\ ResetExecutor
    /\ ppc \in {"idle", "returned"}
    /\ ipc \in {"idle", "returned"}
    /\ runs < MaxRuns
    /\ runs' = runs + 1
    /\ LET data_date == ResolveDate(arg, config_date, clock)
       IN
         /\ cfg' = c
         /\ batch' = [arg |-> arg, config |-> config_date, start_time |-> clock,
                      data_date |-> data_date]
         /\ scriptDates' = {}
         /\ ingestResults' = [s \in {"INGEST_GSC", "INGEST_ANALYTICS", "INGEST_RANK"} |-> NoResult]
         /\ executed' = <<>>
         /\ script_i' = 0
         /\ success_count' = 0
         /\ exportOutcome' = "none"
         /\ exportOpened' = FALSE
         /\ exportConn' = "none"
         /\ exportFiles' = 0
         /\ IF c.missing \in {"input", "database"}
            THEN /\ started' = <<>>
                 /\ RaiseInPipeline("KeyError")
                 /\ ResetLoader
            ELSE /\ started' = <<"INGEST_GSC">>
                 /\ ppc' = "INGEST_GSC"
                 /\ presult' = "none"
                 /\ pexc' = ""
                 /\ caller' = "pipeline"
                 /\ \E fs \in FsAnswers(StageDir["INGEST_GSC"]) :
                      IngestCall(StageDir["INGEST_GSC"], StageTable["INGEST_GSC"],
                                 data_date, fs.dir_exists, fs.matching_files)

\* A pipeline run started without --data-date on a configuration without
\* processing.data_date.
PipelineStart == \E c \in Configs : PipelineBegin(c, NoDate, NoDate)

\* A pipeline run on a fresh store, with any of the date sources.
PipelineStartDated ==
    /\ runs = 0
    /\ \E c \in Configs, arg \in PipelineDates, config_date \in ConfigDates :
         PipelineBegin(c, arg, config_date)

\* An ingestion stage's call has returned: the fail-fast check, then the next
\* ingestion stage's call, or after the rank stage the transform stage
\* (lines 195-244).
IngestStageReturn ==
    /\ ppc \in {"INGEST_GSC", "INGEST_ANALYTICS", "INGEST_RANK"}
    /\ ipc = "returned"
    /\ ingestResults' = [ingestResults EXCEPT ![ppc] = iresult]
    /\ UNCHANGED <<cfg, executed, exportOutcome, exportOpened, exportConn, exportFiles, runs,
                   batch, scriptDates, pexc>>
    /\ UNCHANGED <<executorVars, processVars>>
    /\ IF ~IngestStageSuccess(iresult)
       THEN /\ ReturnFailure
            /\ UNCHANGED <<started, script_i, success_count>>
            /\ UNCHANGED ingestFrame
       ELSE IF NextStage(ppc) \notin DOMAIN StageDir
       THEN /\ EnterStage(NextStage(ppc))
            /\ script_i' = 1
            /\ success_count' = 0
            /\ UNCHANGED presult
            /\ UNCHANGED ingestFrame
       ELSE LET nxt == NextStage(ppc)
            IN  /\ EnterStage(nxt)
                /\ UNCHANGED <<script_i, success_count, presult, caller>>
                /\ \E fs \in FsAnswers(StageDir[nxt]) :
                     IngestCall(StageDir[nxt], StageTable[nxt], batch.data_date,
                                fs.dir_exists, fs.matching_files)

InScriptStage == ppc \in {"TRANSFORM", "JOIN", "FACT"}

\* A configuration key of the stage is absent: the KeyError raised before the
\* stage's first script is caught by run_pipeline's except clause.
ScriptStageKeyError ==
    /\ InScriptStage
    /\ script_i = 1
    /\ cfg.missing = StageKey[ppc]
    /\ RaiseInPipeline("KeyError")
    /\ UNCHANGED <<cfg, started, ingestResults, executed, script_i, success_count,
                   exportOutcome, exportOpened, exportConn, exportFiles, batch, scriptDates>>
    /\ UNCHANGED <<ingestVars, executorVars, processVars>>

\* Variant: the loop of a script stage breaks at the first script that does
\* not report success.
RunScript_StopOnError ==
    /\ InScriptStage
    /\ cfg.missing # StageKey[ppc]
    /\ script_i <= Len(StageScripts[ppc])
    /\ \E fault \in ExecFaults :
         LET script == StageScripts[ppc][script_i]
             result == execute_sql_file(PathOf(StageKey[ppc], script), fault,
                                        batch.data_date, clock)
         IN  /\ executed' = Append(executed, [script |-> script, status |-> result.status])
             /\ success_count' = IF result.status = "success"
                                 THEN success_count + 1 ELSE success_count
             /\ script_i' = IF result.status = "success"
                            THEN script_i + 1 ELSE Len(StageScripts[ppc]) + 1
    /\ scriptDates' = scriptDates \cup {batch.data_date}
    /\ UNCHANGED <<ppc, cfg, started, ingestResults, exportOutcome, exportOpened, exportConn,
                   exportFiles, presult, batch, pexc>>
    /\ UNCHANGED <<ingestVars, executorVars, processVars>>

\* One pass of a script stage's loop (lines 86-89, 107-110, 121): execute the
\* next script and count it if it reports success.
RunScript ==
    /\ InScriptStage
    /\ cfg.missing # StageKey[ppc]
    /\ script_i <= Len(StageScripts[ppc])
    /\ \E fault \in ExecFaults :
         LET script == StageScripts[ppc][script_i]
             result == execute_sql_file(PathOf(StageKey[ppc], script), fault,
                                        batch.data_date, clock)
         IN  /\ executed' = Append(executed, [script |-> script, status |-> result.status])
             /\ success_count' = IF result.status = "success"
                                 THEN success_count + 1 ELSE success_count
    /\ script_i' = script_i + 1
    /\ scriptDates' = scriptDates \cup {batch.data_date}
    /\ UNCHANGED <<ppc, cfg, started, ingestResults, exportOutcome, exportOpened, exportConn,
                   exportFiles, presult, batch, pexc>>
    /\ UNCHANGED <<ingestVars, executorVars, processVars>>

\* A script stage has run its list: its outcome, and the check that follows
\* it in run_pipeline (lines 91/246, 112/254, 122/262).
ScriptStageDone ==
    /\ InScriptStage
    /\ cfg.missing # StageKey[ppc]
    /\ script_i > Len(StageScripts[ppc])
    /\ IF ~ScriptStageSuccess(success_count, StageScripts[ppc])
       THEN /\ ReturnFailure
            /\ UNCHANGED <<started, script_i, success_count>>
       ELSE /\ EnterStage(NextStage(ppc))
            /\ script_i' = 1
            /\ success_count' = 0
            /\ UNCHANGED presult
    /\ UNCHANGED <<cfg, ingestResults, executed, exportOutcome, exportOpened, exportConn, exportFiles,
                   batch, scriptDates, pexc>>
    /\ UNCHANGED <<ingestVars, executorVars, processVars>>

\* What the export attempt can meet once export is enabled (lines 131-163).
ExportAttempts == {"ok", "fail_makedirs", "fail_query", "fail_write"}

\* export_fact_table and run_pipeline's return (lines 125-163, 268-275).
ExportStep ==
    /\ ppc = "EXPORT"
    /\ IF cfg.missing = "output"
       THEN /\ RaiseInPipeline("KeyError")
            /\ UNCHANGED <<exportOutcome, exportOpened, exportConn, exportFiles>>
       ELSE IF ~ExportEnabled(cfg)
       THEN /\ exportOutcome' = "disabled"
            /\ ppc' = "returned"
            /\ presult' = Outcome(PipelineReturn(TRUE, TRUE))
            /\ UNCHANGED <<exportOpened, exportConn, exportFiles, pexc>>
       ELSE \E a \in ExportAttempts :
              /\ ppc' = "returned"
              /\ UNCHANGED pexc
              /\ exportOutcome' = a
              /\ exportOpened' = (a # "fail_makedirs")
              /\ exportConn' \in (IF a = "fail_makedirs" THEN {"none"}
                                  ELSE IF a = "ok" THEN {"closed"}
                                  ELSE Unclosed)
              /\ exportFiles' = IF a \in {"ok", "fail_write"}
                                THEN exportFiles + 1 ELSE exportFiles
              /\ presult' = Outcome(PipelineReturn(TRUE, a = "ok"))
    /\ UNCHANGED <<cfg, started, ingestResults, executed, script_i, success_count,
                   batch, scriptDates>>
    /\ UNCHANGED <<ingestVars, executorVars, processVars>>

\* main() of the pipeline script exits with run_pipeline's outcome (line 306).
PipelineExit ==
    /\ proc = "pipeline"
    /\ ppc = "returned"
    /\ Exit(PipelineExitCode(presult))
    /\ UNCHANGED <<ingestVars, pipelineVars, executorVars>>

\* A new process holds nothing of an earlier pipeline run.
ResetPipeline ==
    /\ ppc' = "idle"
    /\ cfg' = NoConfig
    /\ started' = <<>>
    /\ ingestResults' = [s \in {"INGEST_GSC", "INGEST_ANALYTICS", "INGEST_RANK"} |-> NoResult]
    /\ executed' = <<>>
    /\ script_i' = 0
    /\ success_count' = 0
    /\ exportOutcome' = "none"
    /\ exportOpened' = FALSE
    /\ exportConn' = "none"
    /\ exportFiles' = 0
    /\ presult' = "none"
    /\ batch' = NoBatch
    /\ scriptDates' = {}
    /\ pexc' = ""

\* ------------------------------------------------------------------- specs
Contents == [good : 0..MaxRows, bad : BOOLEAN]

\* The wall clock advances.
Tick ==
    /\ clock < MaxClock
    /\ clock' = clock + 1
    /\ UNCHANGED <<content, ledgerExists, auditSchema, ledger, tables, pending, ipc, call,
                   iresult, caller, atCall, runs>>

InitStore ==
    /\ ledgerExists \in BOOLEAN
    /\ clock = 0
    /\ ledger = <<>>
    /\ tables = [t \in Tables |-> <<>>]
    /\ pending = <<>>
    /\ ipc = "idle"
    /\ call = NoCall
    /\ iresult = NoResult
    /\ caller = "cli"
    /\ atCall = [ledger |-> <<>>, tables |-> [t \in Tables |-> <<>>]]
    /\ runs = 0

InitPipelineVars ==
    /\ ppc = "idle"
    /\ cfg = NoConfig
    /\ started = <<>>
    /\ ingestResults = [s \in {"INGEST_GSC", "INGEST_ANALYTICS", "INGEST_RANK"} |-> NoResult]
    /\ executed = <<>>
    /\ script_i = 0
    /\ success_count = 0
    /\ exportOutcome = "none"
    /\ exportOpened = FALSE
    /\ exportConn = "none"
    /\ exportFiles = 0
    /\ presult = "none"
    /\ batch = NoBatch
    /\ scriptDates = {}
    /\ pexc = ""
    /\ proc = "none"
    /\ exitCode = <<>>
    /\ epc = "idle"
    /\ ecall = NoExec
    /\ eresult = NoResult
    /\ ecommitted = <<>>
    /\ econn = "none"

\* The loader on its own: any file contents within the bound.
Init ==
    /\ content \in [Names -> Contents]
    /\ auditSchema \in BOOLEAN
    /\ InitStore
    /\ InitPipelineVars

\* The pipeline: A.csv is valid, B.csv has one valid row and then a
\* malformed one (the layout of the spec's A.csv / B.csv scenario).
PipelineContent == [n \in Names |-> IF n = "A.csv" THEN [good |-> 1, bad |-> FALSE]
                                                  ELSE [good |-> 1, bad |-> TRUE]]

InitPipeline ==
    /\ content = PipelineContent
    /\ auditSchema = TRUE
    /\ InitStore
    /\ InitPipelineVars

vars == <<content, ledgerExists, auditSchema, clock, ledger, tables, pending, ipc, call, iresult,
          caller, atCall, runs, ppc, cfg, started, ingestResults, executed, script_i,
          success_count, exportOutcome, exportOpened, exportConn, exportFiles, presult,
          batch, scriptDates, pexc, proc, exitCode, epc, ecall, eresult,
          ecommitted, econn>>

\* What the loader's steps and the clock leave alone.
restVars == <<pipelineVars, executorVars, processVars>>

\* The loader script starts: a process of its own.
CliStartStep     == CliStart /\ Spawn("loader") /\ ResetPipeline /\ ResetExecutor
InsertRowStep    == InsertRow /\ UNCHANGED restVars
FileRaiseStep    == FileRaise /\ UNCHANGED restVars
FileCommitStep   == FileCommit /\ UNCHANGED restVars
LogCompletedStep == LogCompleted /\ UNCHANGED restVars
IngestFinishStep == IngestFinish /\ UNCHANGED restVars
TickStep         == Tick /\ UNCHANGED restVars

\* main() of the loader script exits on the call's result (lines 318-329).
CliExit ==
    /\ proc = "loader"
    /\ ipc = "returned"
    /\ Exit(IngestExitCode(iresult))
    /\ UNCHANGED <<ingestVars, pipelineVars, executorVars>>

ExecStartStep == ExecStart /\ ResetLoader /\ ResetPipeline
CliStartAnyPathStep == CliStartAnyPath /\ Spawn("loader") /\ ResetPipeline /\ ResetExecutor
ExecExitStep  == ExecExit /\ UNCHANGED <<ingestFrame, pipelineVars>>

Next ==
    \/ CliStartStep
    \/ InsertRowStep
    \/ FileRaiseStep
    \/ FileCommitStep
    \/ LogCompletedStep
    \/ IngestFinishStep
    \/ CliExit

\* The loader with the clock standing still.
Spec == Init /\ [][Next]_vars

\* The loader under a running clock, on a store that has the ledger table.
InitClocked ==
    /\ Init
    /\ ledgerExists

NextClocked ==
    \/ CliStartStep
    \/ InsertRowStep
    \/ FileRaiseStep
    \/ FileCommitStep
    \/ LogCompletedStep
    \/ IngestFinishStep
    \/ CliExit
    \/ TickStep

SpecClocked == InitClocked /\ [][NextClocked]_vars

NextPipeline ==
    \/ PipelineStart
    \/ IngestStageReturn
    \/ InsertRowStep
    \/ FileRaiseStep
    \/ FileCommitStep
    \/ LogCompletedStep
    \/ IngestFinishStep
    \/ ScriptStageKeyError
    \/ RunScript
    \/ ScriptStageDone
    \/ ExportStep
    \/ PipelineExit

\* The pipeline with the clock standing still and no date given.
SpecPipeline == InitPipeline /\ [][NextPipeline]_vars

\* One pipeline run on a fresh store under a running clock, with every
\* source of the batch date.
NextBatchDate ==
    \/ PipelineStartDated
    \/ IngestStageReturn
    \/ InsertRowStep
    \/ FileRaiseStep
    \/ FileCommitStep
    \/ LogCompletedStep
    \/ IngestFinishStep
    \/ ScriptStageKeyError
    \/ RunScript
    \/ ScriptStageDone
    \/ ExportStep
    \/ PipelineExit
    \/ TickStep

SpecBatchDate == InitPipeline /\ [][NextBatchDate]_vars

\* The executor script on its own, under a running clock.
NextExecutor ==
    \/ ExecStartStep
    \/ ExecExitStep
    \/ TickStep

SpecExecutor == InitPipeline /\ [][NextExecutor]_vars

\* The three entry points as processes on one store: loader and executor
\* invocations in any order, after a pipeline run on the fresh store or
\* without one.
NextEntry ==
    \/ CliStartStep
    \/ InsertRowStep
    \/ FileRaiseStep
    \/ FileCommitStep
    \/ LogCompletedStep
    \/ IngestFinishStep
    \/ CliExit
    \/ ExecStartStep
    \/ ExecExitStep
    \/ PipelineStartDated
    \/ IngestStageReturn
    \/ ScriptStageKeyError
    \/ RunScript
    \/ ScriptStageDone
    \/ ExportStep
    \/ PipelineExit

SpecEntry == InitPipeline /\ [][NextEntry]_vars

\* The loader called over one directory under different spellings and with
\* different target tables, on a store that has the ledger table.
InitAnyPath ==
    /\ content = PipelineContent
    /\ auditSchema = FALSE
    /\ InitStore
    /\ ledgerExists
    /\ InitPipelineVars

NextAnyPath ==
    \/ CliStartAnyPathStep
    \/ InsertRowStep
    \/ FileRaiseStep
    \/ FileCommitStep
    \/ LogCompletedStep
    \/ IngestFinishStep
    \/ CliExit

SpecAnyPath == InitAnyPath /\ [][NextAnyPath]_vars

\* ================================================================ claims
\* Index sets of a file's rows in a row sequence, and of its ledger entries.
RowsOfFile(rows, f) == {k \in 1..Len(rows) : rows[k].file = f}
EntriesOfFile(led, f) == {k \in 1..Len(led) : led[k].file_name = f}
\* Files with a completed ledger entry when the running call started.
CompletedAtCall ==
    {atCall.ledger[k].file_name :
        k \in {j \in 1..Len(atCall.ledger) : atCall.ledger[j].status = "completed"}}
\* The call went through the per-file loop and has returned.
ReturnedFromLoop == ipc = "returned" /\ iresult.status \in {"success", "partial"}
\* Whether loading a file raises.
Raises(f) == content[Basename(f)].bad
\* Files of a sequence of paths.
Range(seq) == {seq[k] : k \in 1..Len(seq)}

\* C1: once a loader call has returned, a file whose processing raised has
\* none of its rows in the target table (all-or-nothing per file).
C1_AllOrNothingPerFile ==
    ReturnedFromLoop =>
        \A k \in 1..Len(iresult.results) :
            iresult.results[k].status = "error" =>
                RowsOfFile(tables[call.table_name], iresult.results[k].file) = {}

\* C2: a file that had a completed ledger entry when the call started gets no
\* row inserted (committed or pending) and no new ledger entry in that call.
C2_CompletedFilesUntouched ==
    \A f \in CompletedAtCall :
        /\ \A t \in Tables :
             Cardinality(RowsOfFile(tables[t], f))
               + (IF t = call.table_name THEN Cardinality(RowsOfFile(pending, f)) ELSE 0)
             = Cardinality(RowsOfFile(atCall.tables[t], f))
        /\ Cardinality(EntriesOfFile(ledger, f)) = Cardinality(EntriesOfFile(atCall.ledger, f))

\* A call matched a completed file and a new one, and loaded the new one.
C2_Witness ==
    /\ ReturnedFromLoop
    /\ iresult.succeeded >= 1
    /\ \E f \in Range(call.matching_files) : f \in CompletedAtCall
    /\ \E f \in Range(call.matching_files) :
         /\ f \notin CompletedAtCall
         /\ RowsOfFile(tables[call.table_name], f) # {}

\* C8: a returned call attempted every matched file that was not completed
\* when it started, each exactly once and in order, whatever failed before it.
C8_EachNewFileAttemptedOnce ==
    ReturnedFromLoop =>
        /\ Len(iresult.results) = Len(call.new_files)
        /\ \A k \in 1..Len(call.new_files) : iresult.results[k].file = call.new_files[k]
        /\ Range(call.new_files) = Range(call.matching_files) \ CompletedAtCall
        /\ \A f \in Range(call.new_files) :
             Cardinality({k \in 1..Len(iresult.results) : iresult.results[k].file = f}) = 1

\* The first file of a call failed and the second was still attempted.
C8_Witness ==
    /\ ReturnedFromLoop
    /\ Len(iresult.results) = 2
    /\ iresult.results[1].status = "error"
    /\ iresult.results[2].status = "success"

\* C9: a call that went through the per-file loop returns success when no
\* file raised, partial when some raised and some did not, and in both cases
\* the detail list with one entry per attempted file.
C9_AggregateStatus ==
    (ipc = "returned" /\ call.new_files # <<>>) =>
        LET raised == {f \in Range(call.new_files) : Raises(f)}
        IN  /\ raised = {} => iresult.status = "success"
            /\ (raised # {} /\ raised # Range(call.new_files)) => iresult.status = "partial"
            /\ "results" \in DOMAIN iresult
            /\ Len(iresult.results) = Len(call.new_files)
            /\ \A k \in 1..Len(call.new_files) :
                 /\ iresult.results[k].file = call.new_files[k]
                 /\ iresult.results[k].status =
                      (IF Raises(call.new_files[k]) THEN "error" ELSE "success")

\* A call returned partial with one file loaded and one failed.
C9_Witness ==
    /\ ipc = "returned"
    /\ iresult.status = "partial"
    /\ iresult.succeeded = 1
    /\ iresult.failed = 1
    /\ Len(iresult.results) = 2

\* C10: with the ledger table present, a returned call has added exactly one
\* ledger entry per attempted file, in order: completed if the load succeeded,
\* failed if it raised.
C10_OneLedgerEntryPerAttempt ==
    (ledgerExists /\ ipc = "returned" /\ call.new_files # <<>>) =>
        ledger = atCall.ledger \o
                 [k \in 1..Len(call.new_files) |->
                    [file_name |-> call.new_files[k],
                     status |-> IF Raises(call.new_files[k]) THEN "failed" ELSE "completed",
                     data_date |-> call.data_date]]

\* One valid and one malformed file: partial, 1 succeeded, 1 failed, and the
\* malformed file's new entry is failed.
C10_Witness ==
    /\ ledgerExists
    /\ ReturnedFromLoop
    /\ iresult.status = "partial"
    /\ iresult.succeeded = 1
    /\ iresult.failed = 1
    /\ \E k \in (Len(atCall.ledger) + 1)..Len(ledger) :
         /\ ledger[k].status = "failed"
         /\ Raises(ledger[k].file_name)

\* Rows the running (or last) loader call has inserted so far into its table.
NewRows ==
    IF call.table_name \in Tables
    THEN SubSeq(tables[call.table_name],
                Len(atCall.tables[call.table_name]) + 1,
                Len(tables[call.table_name])) \o pending
    ELSE <<>>
\* Every row in a staging table or in the open transaction.
AllRows == UNION {Range(tables[t]) : t \in Tables} \cup Range(pending)
\* The lines of a file's rows, in the order the rows stand in a sequence.
RECURSIVE LinesOf(_, _)
LinesOf(rows, f) ==
    IF rows = <<>> THEN <<>>
    ELSE IF Head(rows).file = f THEN <<Head(rows).line>> \o LinesOf(Tail(rows), f)
    ELSE LinesOf(Tail(rows), f)

\* C11: with the data_date column in the schema every inserted row is the CSV
\* row's values followed by the call's batch date and a clock reading that is
\* the same for all rows of one file; without it every row is the CSV row's
\* values alone, as many as the header has columns.  In both modes a call
\* inserts the rows of a file in source order, one row per data line.
C11_RowShape ==
    LET n == Len(Header)
    IN  /\ \A r \in AllRows :
             /\ SubSeq(r.values, 1, n) = CsvRow(Basename(r.file), r.line)
             /\ Len(r.values) = IF auditSchema THEN n + 2 ELSE n
             /\ auditSchema => r.values[n + 2] \in {IsoNow(t) : t \in 0..clock}
        /\ \A r \in Range(NewRows) :
             auditSchema => r.values[n + 1] = call.data_date
        /\ \A r1, r2 \in Range(NewRows) :
             (auditSchema /\ r1.file = r2.file) => r1.values[n + 2] = r2.values[n + 2]
        /\ \A f \in Range(call.new_files) :
             LET lines == LinesOf(NewRows, f)
             IN  /\ \A k \in 1..Len(lines) : lines[k] = k
                 /\ Len(lines) <= content[Basename(f)].good
                 /\ (ReturnedFromLoop /\ ~Raises(f)) => Len(lines) = content[Basename(f)].good

\* A returned call loaded a two-row file into an audit-column table: both
\* rows carry the given batch date and the reading taken before the clock
\* advanced.
C11_Witness ==
    /\ auditSchema
    /\ ReturnedFromLoop
    /\ clock > 0
    /\ call.data_date = "2023-12-31"
    /\ \E f \in Range(call.new_files) :
         /\ LinesOf(NewRows, f) = <<1, 2>>
         /\ \A r \in Range(NewRows) :
              r.file = f => r.values = <<"v", "v", "2023-12-31", IsoNow(0)>>

\* Rows the running (or last) loader call has committed to its table.
CommittedNew ==
    IF call.table_name \in Tables
    THEN SubSeq(tables[call.table_name],
                Len(atCall.tables[call.table_name]) + 1,
                Len(tables[call.table_name]))
    ELSE <<>>
\* The lines 1..n in order.
UpTo(n) == [k \in 1..n |-> k]

\* C13: on a store without the ledger table the ledger stays empty, no call
\* is skipped, every matched file is a new file of the call, and a call that
\* matched files returns success or partial (never error) with every file
\* whose load did not raise committed in full and reported success.
C13_LedgerMissingTolerated ==
    ~ledgerExists =>
        /\ ledger = <<>>
        /\ iresult.status # "skipped"
        /\ ipc \in {"file", "log"} => call.new_files = call.matching_files
        /\ (ipc = "returned" /\ call.matching_files # <<>>) =>
              /\ iresult.status \in {"success", "partial"}
              /\ call.new_files = call.matching_files
              /\ \A k \in 1..Len(call.matching_files) :
                   LET f == call.matching_files[k]
                   IN  ~Raises(f) =>
                         /\ iresult.results[k] = [file |-> f, status |-> "success"]
                         /\ LinesOf(CommittedNew, f) = UpTo(content[Basename(f)].good)

\* Without the ledger table a second call loaded both files again in full
\* and returned success.
C13_Witness ==
    /\ ~ledgerExists
    /\ ReturnedFromLoop
    /\ iresult.status = "success"
    /\ iresult.succeeded = 2
    /\ \A f \in Range(call.matching_files) :
         /\ RowsOfFile(atCall.tables[call.table_name], f) # {}
         /\ RowsOfFile(CommittedNew, f) # {}

\* C14: every step leaves the ledger's rows as they were and adds at most
\* one row after them.
C14_LedgerAppendOnly ==
    [][/\ Len(ledger') \in {Len(ledger), Len(ledger) + 1}
       /\ SubSeq(ledger', 1, Len(ledger)) = ledger]_vars

\* A file failed in two calls: the ledger holds both failed rows.
C14_Witness ==
    \E j, k \in 1..Len(ledger) :
        /\ j < k
        /\ ledger[j].file_name = ledger[k].file_name
        /\ ledger[j].status = "failed"
        /\ ledger[k].status = "failed"

\* C15: a matched file is left out of the call's new files exactly when the
\* ledger held a completed entry for it at the start of the call; a matched
\* file that had only failed entries is attempted, and the returned call has
\* added one entry for it and kept its earlier entries as they were.
C15_IngestedIffCompleted ==
    /\ \A f \in Range(call.matching_files) :
         ipc # "idle" => (f \notin Range(call.new_files) <=> f \in CompletedAtCall)
    /\ (ReturnedFromLoop /\ ledgerExists) =>
         \A f \in Range(call.matching_files) :
            (EntriesOfFile(atCall.ledger, f) # {} /\ f \notin CompletedAtCall) =>
                /\ \E k \in 1..Len(iresult.results) : iresult.results[k].file = f
                /\ Cardinality(EntriesOfFile(ledger, f))
                     = Cardinality(EntriesOfFile(atCall.ledger, f)) + 1
                /\ \A k \in EntriesOfFile(atCall.ledger, f) : ledger[k] = atCall.ledger[k]

\* A file with one failed entry was matched again beside a completed file:
\* only the failed one was attempted, and it now has two entries.
C15_Witness ==
    /\ ReturnedFromLoop
    /\ \E f, g \in Range(call.matching_files) :
         /\ g \in CompletedAtCall
         /\ g \notin Range(call.new_files)
         /\ f \notin CompletedAtCall
         /\ Cardinality(EntriesOfFile(atCall.ledger, f)) = 1
         /\ Cardinality(EntriesOfFile(ledger, f)) = 2
         /\ call.new_files = <<f>>

\* C16: a returned call's status is skipped exactly when it matched at least
\* one file and every matched file had a completed entry when it started; a
\* skipped result carries the number of matched files and no per-file detail,
\* no file was processed, and the tables and the ledger are as the call found
\* them.
C16_SkippedExactly ==
    ipc = "returned" =>
        /\ iresult.status = "skipped" <=>
              (call.matching_files # <<>> /\ Range(call.matching_files) \subseteq CompletedAtCall)
        /\ iresult.status = "skipped" =>
              /\ iresult.matched_files = Len(call.matching_files)
              /\ DOMAIN iresult = {"status", "message", "matched_files"}
              /\ call.i = 0
              /\ call.results = <<>>
              /\ pending = <<>>
              /\ tables = atCall.tables
              /\ ledger = atCall.ledger

\* A call that matched two files, both completed before, returned skipped.
C16_Witness ==
    /\ ipc = "returned"
    /\ iresult.status = "skipped"
    /\ iresult.matched_files = 2
    /\ Cardinality(CompletedAtCall) = 2

\* ------------------------------------------------------- pipeline claims
\* Ledger entries the running (or last) loader call has written.
NewEntries == {k \in 1..Len(ledger) : k > Len(atCall.ledger)}

\* C12: the run's batch date is the argument if given, else the
\* configuration's date, else the date the clock showed when the run started;
\* every ledger entry and audit-column row an ingestion stage of the run
\* writes carries it, and every script execution of the run is passed it.
C12_BatchDateConstant ==
    ppc # "idle" =>
        /\ batch.data_date =
              (IF batch.arg # NoDate THEN batch.arg
               ELSE IF batch.config # NoDate THEN batch.config
               ELSE Today(batch.start_time))
        /\ started # <<>> =>
              /\ \A k \in NewEntries : ledger[k].data_date = batch.data_date
              /\ \A r \in Range(NewRows) :
                   auditSchema => r.values[Len(Header) + 1] = batch.data_date
        /\ scriptDates \subseteq {batch.data_date}

\* A run with no date given went through every stage while the clock
\* advanced: what it wrote after the tick still carries the start date.
C12_Witness ==
    /\ ppc = "returned"
    /\ presult = "success"
    /\ batch.arg = NoDate
    /\ batch.config = NoDate
    /\ clock > batch.start_time
    /\ scriptDates = {Today(batch.start_time)}
    /\ \E k \in NewEntries : ledger[k].data_date = Today(batch.start_time)
    /\ \E r \in Range(NewRows) :
         r.values = <<"v", "v", Today(batch.start_time), IsoNow(clock)>>

\* The outcomes after which an ingestion stage lets the pipeline go on.
Allowed(r) ==
    \/ r.status \in {"success", "skipped"}
    \/ (r.status = "partial" /\ r.succeeded > 0)
IngestStageNames == {"INGEST_GSC", "INGEST_ANALYTICS", "INGEST_RANK"}
ExpectedOrder == <<"INGEST_GSC", "INGEST_ANALYTICS", "INGEST_RANK",
                   "TRANSFORM", "JOIN", "FACT", "EXPORT">>
\* Stages that come after a stage in the specified order.
LaterStages(stage) ==
    {ExpectedOrder[k] : k \in {j \in 1..Len(ExpectedOrder) :
        \E m \in 1..(j - 1) : ExpectedOrder[m] = stage}}
\* Executions of a stage's scripts so far in this run.
RunsOf(stage) == {k \in 1..Len(executed) : executed[k].script \in Range(StageScripts[stage])}
\* Every script of the stage's list was executed and reported success.
AllScriptsSucceeded(stage) ==
    \A sc \in Range(StageScripts[stage]) :
        \E k \in 1..Len(executed) : executed[k] = [script |-> sc, status |-> "success"]
FactSucceeded == AllScriptsSucceeded("FACT")
\* A stage that has finished, finished successfully.
StagePassed(stage) ==
    IF stage \in IngestStageNames THEN Allowed(ingestResults[stage])
    ELSE IF stage = "EXPORT" THEN exportOutcome \in {"ok", "disabled"}
    ELSE AllScriptsSucceeded(stage)

\* C3: an ingestion stage is followed by a later stage only if its outcome
\* was success, skipped, or partial with succeeded > 0; after any other
\* outcome the run has returned failure with no later stage started.
C3_IngestFailFast ==
    \A k \in 1..Len(started) :
        started[k] \in IngestStageNames =>
            LET r == ingestResults[started[k]]
            IN  /\ k < Len(started) => Allowed(r)
                /\ (r # NoResult /\ ~Allowed(r)) =>
                     /\ k = Len(started)
                     /\ ppc = "returned"
                     /\ presult = "failure"
                     /\ Range(started) \cap LaterStages(started[k]) = {}

\* GSC ingestion ended partial with nothing loaded: the run returned failure
\* and only the GSC stage was ever started.
C3_Witness ==
    /\ ingestResults["INGEST_GSC"].status = "partial"
    /\ ingestResults["INGEST_GSC"].succeeded = 0
    /\ presult = "failure"
    /\ started = <<"INGEST_GSC">>

\* C4: a failed transform script keeps join, fact and export from ever being
\* invoked, a failed join script keeps fact and export from being invoked,
\* and once such a stage's list is done the run has returned failure.
C4_ScriptStageAllOrFail ==
    \A st \in {"TRANSFORM", "JOIN"} :
        /\ (\E k \in RunsOf(st) : executed[k].status # "success") =>
              /\ Range(started) \cap LaterStages(st) = {}
              /\ exportOutcome = "none"
              /\ RunsOf("FACT") = {}
              /\ st = "TRANSFORM" => RunsOf("JOIN") = {}
              /\ Cardinality(RunsOf(st)) = Len(StageScripts[st]) =>
                    (ppc \in {st, "returned"} /\ (ppc = "returned" => presult = "failure"))
        /\ (Range(started) \cap LaterStages(st) # {}) => AllScriptsSucceeded(st)

\* Only the last transform script failed: failure, and join never started.
C4_Witness ==
    /\ executed = <<[script |-> "transform_gsc", status |-> "success"],
                    [script |-> "transform_analytics", status |-> "success"],
                    [script |-> "transform_rank", status |-> "error"]>>
    /\ ppc = "returned"
    /\ presult = "failure"
    /\ "JOIN" \notin Range(started)

\* C5: the stages started in a run are a prefix of the fixed order (so none
\* is out of order or entered twice), every stage but the last started one
\* finished successfully, and a failed run is not in any stage.
C5_StageOrder ==
    /\ Len(started) <= Len(ExpectedOrder)
    /\ \A k \in 1..Len(started) : started[k] = ExpectedOrder[k]
    /\ \A k \in 1..(Len(started) - 1) : StagePassed(started[k])
    /\ ppc \notin {"idle", "returned"} => (started # <<>> /\ ppc = started[Len(started)])
    /\ presult = "failure" => ppc = "returned"

\* A run went through all seven stages.
C5_Witness ==
    /\ started = ExpectedOrder
    /\ ppc = "returned"
    /\ presult = "success"

\* C6: a returned run reports success exactly when the fact script succeeded
\* and export succeeded or was disabled.
C6_PipelineSuccess ==
    ppc = "returned" =>
        (presult = "success" <=> (FactSucceeded /\ exportOutcome \in {"ok", "disabled"}))

\* Every stage up to the fact table succeeded, export was enabled and failed.
C6_Witness ==
    /\ ppc = "returned"
    /\ FactSucceeded
    /\ cfg.export_csv
    /\ exportOutcome \in {"fail_makedirs", "fail_query", "fail_write"}
    /\ presult = "failure"

\* C7: with export_csv off (or absent) in the output section, the run never
\* opens the store for export and never writes an export file, and a returned
\* run reports success exactly when the fact script succeeded.
C7_ExportDisabled ==
    (cfg.missing # "output" /\ ~cfg.export_csv) =>
        /\ exportFiles = 0
        /\ ~exportOpened
        /\ ppc = "returned" => (presult = "success" <=> FactSucceeded)

\* A run with export disabled reached the export step and returned success.
C7_Witness ==
    /\ ppc = "returned"
    /\ ~cfg.export_csv
    /\ exportOutcome = "disabled"
    /\ exportFiles = 0
    /\ presult = "success"

\* ------------------------------------------------------- executor claims
\* C17: a returned execute_sql_file call has handed back a dict with status
\* success or error (no exception left the function), and status error
\* whenever the script was missing or unreadable, the store could not be
\* opened or the SQL failed.
C17_ExecutorNeverRaises ==
    epc = "returned" =>
        /\ eresult.status \in {"success", "error"}
        /\ ecall.fault # "none" => eresult.status = "error"

\* The script could not be read: an error outcome came back and the script
\* exited 1.
C17_Witness ==
    /\ epc = "returned"
    /\ ecall.fault = "unreadable"
    /\ eresult.status = "error"
    /\ exitCode = <<[entry |-> "executor", code |-> 1]>>

\* C18: every outcome execute_sql_file returns is success with the script's
\* base name and the batch date used, or error with a message and the
\* script's base name.
C18_OutcomeFields ==
    epc = "returned" =>
        \/ /\ eresult.status = "success"
           /\ Get(eresult, "file_name", "") = Basename(ecall.sql_file_path)
           /\ Get(eresult, "data_date", "") = DefaultDate(ecall.data_date, ecall.now)
        \/ /\ eresult.status = "error"
           /\ "message" \in DOMAIN eresult
           /\ Get(eresult, "file_name", "") = Basename(ecall.sql_file_path)

\* ------------------------------------------------------ entry point claims
\* C19: run_pipeline never lets an exception out; once one was raised in its
\* try block the run has returned failure, and the pipeline script then
\* exits 1.
C19_NoExceptionEscapes ==
    /\ presult \in {"none", "success", "failure"}
    /\ pexc # "" =>
         /\ ppc = "returned"
         /\ presult = "failure"
         /\ exitCode # <<>> => exitCode = <<[entry |-> "pipeline", code |-> 1]>>

\* The join stage's configuration key was missing: the KeyError raised in
\* run_joins ended the run as a failure and the script exited 1.
C19_Witness ==
    /\ pexc = "KeyError"
    /\ cfg.missing = "sql.join"
    /\ started = <<"INGEST_GSC", "INGEST_ANALYTICS", "INGEST_RANK", "TRANSFORM", "JOIN">>
    /\ presult = "failure"
    /\ exitCode = <<[entry |-> "pipeline", code |-> 1]>>

\* C20: the loader script exits 0 exactly for success and skipped and 1 for
\* partial, warning and error; the executor script exits 0 exactly for
\* success; the pipeline script exits 0 exactly when run_pipeline returned
\* success.
C20_ExitCodes ==
    exitCode # <<>> =>
        LET e == exitCode[1]
        IN  /\ e.code \in {0, 1}
            /\ e.entry = "loader" =>
                 /\ e.code = 0 <=> iresult.status \in {"success", "skipped"}
                 /\ e.code = 1 <=> iresult.status \in {"partial", "warning", "error"}
            /\ e.entry = "executor" => (e.code = 0 <=> eresult.status = "success")
            /\ e.entry = "pipeline" => (e.code = 0 <=> presult = "success")

\* After a pipeline run the loader script was run on a directory whose one
\* new file fails again: partial, exit code 1.
C20_Witness ==
    /\ exitCode = <<[entry |-> "loader", code |-> 1]>>
    /\ iresult.status = "partial"
    /\ runs = 2
    /\ CompletedAtCall # {}

\* ------------------------------------------------------ idempotence claims
\* C21: with the ledger table in the store, after any sequence of loader
\* calls every data row of every source file stands at most once in the
\* target table.
C21_RowsAtMostOnce ==
    ledgerExists =>
        \A t \in Tables :
            \A j, k \in 1..Len(tables[t]) :
                (tables[t][j].file = tables[t][k].file /\ tables[t][j].line = tables[t][k].line)
                    => j = k

\* ---------------------------------------------------------- result counting
\* C28: in every result with status success or partial, succeeded + failed
\* is the number of new files and the length of the detail list, whose
\* entries follow the processing order; skipped is matched minus new, so the
\* three counts add up to the matched files; the status is partial whenever
\* failed > 0 (also with succeeded = 0), and success means failed = 0 and
\* succeeded >= 1.
C28_ResultCounts ==
    (ipc = "returned" /\ iresult.status \in {"success", "partial"}) =>
        /\ iresult.succeeded + iresult.failed = Len(call.new_files)
        /\ iresult.succeeded + iresult.failed = Len(iresult.results)
        /\ \A k \in 1..Len(iresult.results) : iresult.results[k].file = call.new_files[k]
        /\ iresult.skipped = Len(call.matching_files) - Len(call.new_files)
        /\ iresult.succeeded + iresult.failed + iresult.skipped = Len(call.matching_files)
        /\ iresult.succeeded = Cardinality({k \in 1..Len(iresult.results) : iresult.results[k].status = "success"})
        /\ iresult.failed = Cardinality({k \in 1..Len(iresult.results) : iresult.results[k].status = "error"})
        /\ (iresult.failed > 0 <=> iresult.status = "partial")
        /\ (iresult.status = "success" => (iresult.failed = 0 /\ iresult.succeeded >= 1))

C28_Witness ==
    /\ ipc = "returned"
    /\ iresult.status = "partial"
    /\ iresult.succeeded = 0
    /\ iresult.failed = 1
    /\ iresult.skipped = 1

\* ------------------------------------------------------- ledger ordering
\* C25: in every state of a loader call, a file with a completed ledger
\* entry written by that call has all of its data rows committed by that
\* call in the target table, in source order; the entry is only ever written
\* by a step that starts with all rows of the file committed.
C25_CompletedAfterCommit ==
    \A k \in NewEntries :
        ledger[k].status = "completed" =>
            /\ call.table_name \in Tables
            /\ LinesOf(CommittedNew, ledger[k].file_name)
                 = UpTo(content[Basename(ledger[k].file_name)].good)
            /\ \A r \in Range(pending) : r.file # ledger[k].file_name

\* Mid-call: the first file's completed entry is written and its two rows
\* are committed while the second file is still being read.
C25_Witness ==
    /\ ipc = "file"
    /\ call.i = 2
    /\ call.line = 1
    /\ \E k \in NewEntries :
         /\ ledger[k].status = "completed"
         /\ ledger[k].file_name = call.new_files[1]
         /\ LinesOf(CommittedNew, ledger[k].file_name) = <<1, 2>>

\* ------------------------------------------------------ script stage loops
\* The scripts of a stage executed so far in this run, in execution order.
StageRun(stage) ==
    LET runs_of == SelectSeq(executed, LAMBDA e : e.script \in Range(StageScripts[stage]))
    IN  [k \in 1..Len(runs_of) |-> runs_of[k].script]
\* The stage's loop has ended and its outcome has been computed.
OutcomeComputed(stage) ==
    /\ stage \in Range(started)
    /\ ppc # stage
    /\ cfg.missing # StageKey[stage]

\* C23: in the transform stage and in the join stage the scripts executed so
\* far are the first scripts of the stage's list, each once and in list
\* order, whatever they reported; while the stage runs they are the scripts
\* before the loop position, and once the stage's outcome is computed they
\* are the whole list, so a failed script is followed by the rest of the list.
C23_StageRunsWholeList ==
    \A st \in {"TRANSFORM", "JOIN"} :
        /\ Len(StageRun(st)) <= Len(StageScripts[st])
        /\ StageRun(st) = SubSeq(StageScripts[st], 1, Len(StageRun(st)))
        /\ (ppc = st /\ cfg.missing # StageKey[st]) => Len(StageRun(st)) = script_i - 1
        /\ OutcomeComputed(st) => StageRun(st) = StageScripts[st]

\* The first transform script failed and the two after it were still
\* executed before the stage's failure was returned.
C23_Witness ==
    /\ executed = <<[script |-> "transform_gsc", status |-> "error"],
                    [script |-> "transform_analytics", status |-> "success"],
                    [script |-> "transform_rank", status |-> "success"]>>
    /\ OutcomeComputed("TRANSFORM")
    /\ ppc = "returned"
    /\ presult = "failure"

\* ------------------------------------------------ script failure and store
\* C24: when a script fails at a statement, execute_sql_file returns an
\* error outcome carrying the underlying message and the script's base name,
\* and no rollback happens: the statements before the failing one stay
\* committed in the store, the failing one and those after it do not.
C24_NoRollbackOnScriptError ==
    (epc = "returned" /\ ecall.fault = "sql") =>
        /\ eresult.status = "error"
        /\ eresult.message = ExceptionOf("sql")
        /\ eresult.file_name = Basename(ecall.sql_file_path)
        /\ ecommitted = SubSeq(StatementsOf(ecall.sql_file_path), 1, ecall.fail_at - 1)

\* A script failed at its second statement: the first one stays committed.
C24_Witness ==
    /\ epc = "returned"
    /\ ecall.fault = "sql"
    /\ ecall.fail_at = 2
    /\ eresult.status = "error"
    /\ ecommitted = <<"statement_1">>

\* ------------------------------------------------------ connection scopes
\* C22: a connection opened by the script executor, the CSV loader or the
\* export step is closed when that operation has returned, whichever path it
\* took, and the loader gives each file it processes a connection of its
\* own: a call that went through its loop has opened as many connections as
\* it processed files.
C22_ConnectionsClosedAndScoped ==
    /\ epc = "returned" => econn # "open"
    /\ ipc = "returned" => call.conn # "open"
    /\ ppc = "returned" => exportConn # "open"
    /\ ReturnedFromLoop => call.connects = Len(call.new_files)

\* ------------------------------------------------------------ ledger keys
\* Matched files whose file name had a completed entry when the call started.
CompletedNamesAtCall ==
    {f \in Range(call.matching_files) :
        \E k \in 1..Len(atCall.ledger) :
            /\ atCall.ledger[k].status = "completed"
            /\ Basename(atCall.ledger[k].file_name) = Basename(f)}

\* C26: a matched file counts as already ingested exactly when a completed
\* entry for its file name was in the ledger when the call started, whatever
\* spelling of the directory it is reached through: it is then not among the
\* call's new files and the call inserts no row of it.
C26_KeyedByFileName ==
    ipc # "idle" =>
        \A f \in Range(call.matching_files) :
            /\ f \in CompletedNamesAtCall <=> f \notin Range(call.new_files)
            /\ f \in CompletedNamesAtCall => RowsOfFile(NewRows, f) = {}

\* C27: a matched path that had a completed entry when the call started,
\* from a load into another table, is not among the call's new files, and no
\* row of it is inserted into the call's target table.
C27_SkipIgnoresTable ==
    ipc # "idle" =>
        \A f \in Range(call.matching_files) :
            (/\ f \in CompletedAtCall
             /\ \E t \in Tables \ {call.table_name} : RowsOfFile(atCall.tables[t], f) # {})
                => /\ f \notin Range(call.new_files)
                   /\ RowsOfFile(NewRows, f) = {}
                   /\ RowsOfFile(tables[call.table_name], f)
                        = RowsOfFile(atCall.tables[call.table_name], f)

\* A.csv was completed into one table; a later call for the same path with
\* the other table loaded only B.csv's rows and none of A.csv's.
C27_Witness ==
    /\ ipc = "returned"
    /\ iresult.status = "partial"
    /\ \E f \in Range(call.matching_files) :
         /\ f \in CompletedAtCall
         /\ \E t \in Tables \ {call.table_name} : RowsOfFile(atCall.tables[t], f) # {}
         /\ RowsOfFile(tables[call.table_name], f) = {}
         /\ call.new_files # <<>>
         /\ f \notin Range(call.new_files)
====
